---- MODULE Spec2Model ----
(***************************************************************************)
(* Model of QTDevice.from_ble_device (src/src/clue_access/schemas.py):     *)
(* the BLE advertising-data field iterator iter_fields, the collection of  *)
(* its fields into a dict, and the unpacking of the six-byte manufacturer  *)
(* payload into colour, mode, armed, snow mode and battery voltage.        *)
(***************************************************************************)
EXTENDS Integers, Sequences, FiniteSets, TLC

VARIABLES ble_device, pc, offset, fields, yielded, manufacturer_data, name,
          unpacked, result, err

vars == <<ble_device, pc, offset, fields, yielded, manufacturer_data, name,
          unpacked, result, err>>

\* ----------------------------------------------------------------------
\* Bounds of the explored input space
\* ----------------------------------------------------------------------
MaxChunks == 3

\* ----------------------------------------------------------------------
\* Program constants
\* ----------------------------------------------------------------------
MANUFACTURER_TYPE == 255
NAME_TYPE == 9
STRUCT_SIZE == 6

\* Python's None / a present value, as a sequence of length 0 / 1.
None == <<>>
Some(x) == <<x>>

\* ----------------------------------------------------------------------
\* Python primitives used by the code
\* ----------------------------------------------------------------------
Min(a, b) == IF a < b THEN a ELSE b

RECURSIVE BitAnd(_, _)
BitAnd(a, b) ==
    IF a = 0 \/ b = 0 THEN 0
    ELSE (a % 2) * (b % 2) + 2 * BitAnd(a \div 2, b \div 2)

RECURSIVE BitOr(_, _)
BitOr(a, b) ==
    IF a = 0 THEN b
    ELSE IF b = 0 THEN a
    ELSE (IF a % 2 = 1 \/ b % 2 = 1 THEN 1 ELSE 0) + 2 * BitOr(a \div 2, b \div 2)

ShiftRight(a, n) == a \div (2 ^ n)

\* data[i] with Python's 0-based index
At(data, i) == data[i + 1]

\* data[lo:hi]: a slice never raises, it is cut at the end of the data
PySlice(data, lo, hi) == SubSeq(data, lo + 1, Min(hi, Len(data)))

\* bytes.decode("utf-8"), strict: the code points, or a failure
IsCont(b) == b >= 128 /\ b <= 191

RECURSIVE Utf8Decode(_)
Utf8Decode(b) ==
    IF b = <<>> THEN [ok |-> TRUE, text |-> <<>>]
    ELSE
      LET c == b[1]
          n == IF c < 128 THEN 1
               ELSE IF c >= 194 /\ c <= 223 THEN 2
               ELSE IF c >= 224 /\ c <= 239 THEN 3
               ELSE IF c >= 240 /\ c <= 244 THEN 4
               ELSE 0
          good ==
               /\ n > 0
               /\ Len(b) >= n
               /\ \A i \in 2..n : IsCont(b[i])
               /\ (c = 224 => b[2] >= 160)
               /\ (c = 237 => b[2] <= 159)
               /\ (c = 240 => b[2] >= 144)
               /\ (c = 244 => b[2] <= 143)
          cp == IF n = 1 THEN c
                ELSE IF n = 2 THEN (c - 192) * 64 + (b[2] - 128)
                ELSE IF n = 3 THEN (c - 224) * 4096 + (b[2] - 128) * 64 + (b[3] - 128)
                ELSE (c - 240) * 262144 + (b[2] - 128) * 4096
                     + (b[3] - 128) * 64 + (b[4] - 128)
      IN IF ~good THEN [ok |-> FALSE, text |-> <<>>]
         ELSE LET rest == Utf8Decode(SubSeq(b, n + 1, Len(b)))
              IN IF rest.ok THEN [ok |-> TRUE, text |-> <<cp>> \o rest.text]
                 ELSE [ok |-> FALSE, text |-> <<>>]

\* dict.get(key, b"")
FieldsGet(d, key) == IF key \in DOMAIN d THEN d[key] ELSE <<>>

\* d[key] = value
SetItem_first(d, key, value) ==
    [k \in DOMAIN d \cup {key} |-> IF k \in DOMAIN d THEN d[k] ELSE value]
SetItem(d, key, value) ==
    [k \in DOMAIN d \cup {key} |-> IF k = key THEN value ELSE d[k]]

\* struct.unpack("<BBBBBB", m) raises struct.error unless len(m) == 6
StructUnpackOk_atleast(m) == Len(m) >= STRUCT_SIZE
StructUnpackOk(m) == Len(m) = STRUCT_SIZE
StructUnpack(m) == [i \in 1..STRUCT_SIZE |-> m[i]]

\* IntEnum lookups QTColor(v), QTMode(v): ValueError unless v is a member
IsQTColor_zero(v) == v \in 0..6
IsQTColor(v) == v \in 1..6
IsQTMode(v) == v \in 0..8

\* ----------------------------------------------------------------------
\* iter_fields
\* ----------------------------------------------------------------------
Terminator_never(length) == FALSE
Terminator(length) == length = 0

NextOffset_short(off, length) == off + length
NextOffset(off, length) == off + length + 1

FieldValue(data, off, length) == PySlice(data, off + 2, off + length + 1)

\* ----------------------------------------------------------------------
\* bit extraction from the unpacked tuple (u[1] is unpacked[0])
\* ----------------------------------------------------------------------
ColorBits_shift6(u) ==
    BitOr(ShiftRight(BitAnd(u[1], 192), 6), ShiftRight(BitAnd(u[2], 192), 6))
ColorBits(u) ==
    BitOr(ShiftRight(BitAnd(u[1], 192), 6), ShiftRight(BitAnd(u[2], 192), 4))

ModeBits_widemask(u) ==
    BitOr(ShiftRight(BitAnd(u[3], 192), 6), ShiftRight(BitAnd(u[4], 192), 4))
ModeBits(u) ==
    BitOr(ShiftRight(BitAnd(u[3], 192), 6), ShiftRight(BitAnd(u[4], 64), 4))

Armed(u) == BitAnd(u[4], 128) # 0
Snowmode_bit7(u) == BitAnd(u[5], 128) # 0
Snowmode(u) == BitAnd(u[5], 64) # 0

\* unpacked[5] * 60 / 1000 as an exact fraction
Vbat(u) == [num |-> u[6] * 60, den |-> 1000]

\* ----------------------------------------------------------------------
\* Inputs: advertising buffers built from at most MaxChunks pieces, and
\* one name record followed by each manufacturer payload of Payloads
\* ----------------------------------------------------------------------
Chunks ==
    { <<0>>,                                   \* zero length: terminator
      <<2, 1, 6>>,                             \* flags
      <<1, 9>>,                                \* empty name
      <<2, 9, 65>>,                            \* name "A"
      <<3, 9, 66, 67>>,                        \* name "BC"
      <<3, 9, 195, 169>>,                      \* name U+00E9
      <<2, 9, 128>>,                           \* name, not UTF-8
      <<1, 255>>,                              \* empty manufacturer data
      <<7, 255, 192, 0, 192, 128, 64, 200>>,   \* colour 3, mode 3
      <<7, 255, 0, 64, 0, 64, 0, 0>>,          \* colour 4, mode 4
      <<7, 255, 0, 0, 0, 0, 0, 0>>,            \* colour 0
      <<7, 255, 64, 128, 192, 192, 64, 200>>,  \* colour 9, mode 7
      <<6, 255, 192, 0, 192, 128, 64>>,        \* five payload bytes
      <<8, 255, 192, 0, 192, 128, 64, 200, 1>>,\* seven payload bytes
      <<4, 9, 65>>,                            \* declares 3 value bytes, has 1
      <<9, 255, 192, 0, 192, 128, 64, 200>>,   \* declares 8 value bytes, has 6
      <<5>> }                                  \* length byte with no type byte

RECURSIVE Concats(_)
Concats(n) ==
    IF n = 0 THEN { <<>> }
    ELSE LET prev == Concats(n - 1)
         IN prev \cup { b \o c : b \in prev, c \in Chunks }

Payloads ==
    { <<b0, b1, b2, b3, b4, b5>> :
        b0 \in {0, 64, 128, 192, 127}, b1 \in {0, 64, 128, 192},
        b2 \in {0, 64, 128, 192},      b3 \in {0, 64, 128, 192, 63, 255},
        b4 \in {0, 64, 191, 255},      b5 \in {0, 200, 255} }

Buffers ==
    Concats(MaxChunks) \cup { <<2, 9, 65, 7, 255>> \o p : p \in Payloads }

MAC == "AA:BB:CC:DD:EE:FF"

Devices ==
    { [name |-> Some("QT"), raw_data |-> Some(d), id |-> Some(1), mac |-> MAC] :
        d \in Buffers }
    \cup
    { [name |-> n, raw_data |-> r, id |-> i, mac |-> MAC] :
        n \in {None, Some("QT")},
        r \in {None, Some(<<2, 9, 65, 7, 255, 192, 0, 192, 128, 64, 200>>)},
        i \in {None, Some(1)} }

\* ----------------------------------------------------------------------
\* State machine
\* ----------------------------------------------------------------------
Init ==
    /\ ble_device \in Devices
    /\ pc = "start"
    /\ offset = 0
    /\ fields = <<>>
    /\ yielded = <<>>
    /\ manufacturer_data = <<>>
    /\ name = <<>>
    /\ unpacked = <<>>
    /\ result = None
    /\ err = "none"

Raise(kind) == pc' = "error" /\ err' = kind

\* the three assertions on entry
CheckAsserts ==
    /\ pc = "start"
    /\ IF ble_device.name = None \/ ble_device.raw_data = None \/ ble_device.id = None
       THEN Raise("AssertionError")
       ELSE pc' = "iter" /\ err' = err
    /\ UNCHANGED <<ble_device, offset, fields, yielded, manufacturer_data, name,
                   unpacked, result>>

data == ble_device.raw_data[1]

\* one pass of the loop: iter_fields yields a field, the caller stores it
IterYield ==
    /\ pc = "iter"
    /\ offset < Len(data)
    /\ ~Terminator(At(data, offset))
    /\ offset + 1 < Len(data)
    /\ LET length == At(data, offset)
           type_id == At(data, offset + 1)
           value == FieldValue(data, offset, length)
       IN /\ yielded' = Append(yielded, <<type_id, value>>)
          /\ fields' = SetItem(fields, type_id, value)
          /\ offset' = NextOffset(offset, length)
    /\ UNCHANGED <<ble_device, pc, manufacturer_data, name, unpacked, result, err>>

\* data[offset + 1] is past the end of the buffer
IterIndexError ==
    /\ pc = "iter"
    /\ offset < Len(data)
    /\ ~Terminator(At(data, offset))
    /\ offset + 1 >= Len(data)
    /\ Raise("IndexError")
    /\ UNCHANGED <<ble_device, offset, fields, yielded, manufacturer_data, name,
                   unpacked, result>>

\* the generator ends: the buffer is used up or a zero length was read
IterReturn ==
    /\ pc = "iter"
    /\ \/ offset >= Len(data)
       \/ offset < Len(data) /\ Terminator(At(data, offset))
    /\ pc' = "fields"
    /\ UNCHANGED <<ble_device, offset, fields, yielded, manufacturer_data, name,
                   unpacked, result, err>>

\* manufacturer_data = fields.get(255, b""); name = fields.get(9, b"").decode()
GetFields ==
    /\ pc = "fields"
    /\ manufacturer_data' = FieldsGet(fields, MANUFACTURER_TYPE)
    /\ LET d == Utf8Decode(FieldsGet(fields, NAME_TYPE))
       IN IF d.ok
          THEN name' = d.text /\ pc' = "unpack" /\ err' = err
          ELSE name' = name /\ Raise("UnicodeDecodeError")
    /\ UNCHANGED <<ble_device, offset, fields, yielded, unpacked, result>>

\* unpacked = struct.unpack("<BBBBBB", manufacturer_data)
Unpack ==
    /\ pc = "unpack"
    /\ IF StructUnpackOk(manufacturer_data)
       THEN unpacked' = StructUnpack(manufacturer_data) /\ pc' = "build" /\ err' = err
       ELSE unpacked' = unpacked /\ Raise("struct.error")
    /\ UNCHANGED <<ble_device, offset, fields, yielded, manufacturer_data, name,
                   result>>

\* the enum lookups, the flags, the voltage and the construction of the row
Build ==
    /\ pc = "build"
    /\ IF ~IsQTColor(ColorBits(unpacked)) THEN result' = result /\ Raise("ValueError")
       ELSE IF ~IsQTMode(ModeBits(unpacked)) THEN result' = result /\ Raise("ValueError")
       ELSE /\ result' = Some([name |-> name,
                               mac |-> ble_device.mac,
                               color |-> ColorBits(unpacked),
                               mode |-> ModeBits(unpacked),
                               armed |-> Armed(unpacked),
                               snowmode |-> Snowmode(unpacked),
                               vbat |-> Vbat(unpacked),
                               ble_device_id |-> ble_device.id[1]])
            /\ pc' = "done"
            /\ err' = err
    /\ UNCHANGED <<ble_device, offset, fields, yielded, manufacturer_data, name,
                   unpacked>>

Next ==
    \/ CheckAsserts
    \/ IterYield
    \/ IterIndexError
    \/ IterReturn
    \/ GetFields
    \/ Unpack
    \/ Build

Spec == Init /\ [][Next]_vars

TypeOK ==
    /\ pc \in {"start", "iter", "fields", "unpack", "build", "done", "error"}
    /\ err \in {"none", "AssertionError", "IndexError", "UnicodeDecodeError",
                "struct.error", "ValueError"}
    /\ (pc = "error") <=> (err # "none")
    /\ (pc = "done") <=> (result # None)

\* ----------------------------------------------------------------------
\* Reference notions used to state the properties
\* ----------------------------------------------------------------------
HasData == ble_device.raw_data # None
Terminated == pc \in {"done", "error"}

\* iter_fields ran to its end without raising
ParseCompleted ==
    \/ pc \in {"fields", "unpack", "build", "done"}
    \/ pc = "error" /\ err \in {"UnicodeDecodeError", "struct.error", "ValueError"}

\* the concatenation of the records (length, type, value) of a field list
RECURSIVE Encode(_)
Encode(fs) ==
    IF fs = <<>> THEN <<>>
    ELSE <<Len(fs[1][2]) + 1, fs[1][1]>> \o fs[1][2] \o Encode(Tail(fs))

\* d is a concatenation of complete records with length byte >= 1
RECURSIVE WellFormed(_)
WellFormed(d) ==
    \/ d = <<>>
    \/ /\ d[1] >= 1
       /\ Len(d) >= d[1] + 1
       /\ WellFormed(SubSeq(d, d[1] + 2, Len(d)))

\* walking d record by record meets, before any zero length, a record whose
\* type byte or value bytes lie past the end of d
RECURSIVE Overruns(_)
Overruns(d) ==
    /\ d # <<>>
    /\ d[1] # 0
    /\ \/ Len(d) < d[1] + 1
       \/ Overruns(SubSeq(d, d[1] + 2, Len(d)))

IsPrefix(p, d) == Len(p) <= Len(d) /\ p = SubSeq(d, 1, Len(p))

HasType(ys, t) == \E i \in 1..Len(ys) : ys[i][1] = t
LastIndex(ys, t) ==
    CHOOSE i \in 1..Len(ys) : ys[i][1] = t /\ \A j \in (i + 1)..Len(ys) : ys[j][1] # t
LastValue(ys, t) == ys[LastIndex(ys, t)][2]

\* the payload and the name bytes the buffer provides, if any
HasPayload == HasType(yielded, MANUFACTURER_TYPE)
Payload == LastValue(yielded, MANUFACTURER_TYPE)
HasName == HasType(yielded, NAME_TYPE)
NameBytes == LastValue(yielded, NAME_TYPE)

\* the colour and mode integers of a payload, by arithmetic on its bytes
ColorOf(b) == (b[1] \div 64) + 4 * (b[2] \div 64)
ModeOf(b) == (b[3] \div 64) + 4 * ((b[4] \div 64) % 2)

ExamplePayload == <<64, 128, 192, 192, 64, 200>>
UserPayload == <<192, 0, 192, 128, 64, 200>>

\* the decoder got as far as the payload: fields parsed, name decoded
Decodable ==
    /\ Terminated
    /\ ParseCompleted
    /\ HasName
    /\ Utf8Decode(NameBytes).ok
    /\ HasPayload

\* ----------------------------------------------------------------------
\* C1: decoding the payload [0x40,0x80,0xC0,0xC0,0x40,0xC8] with a name
\* present succeeds with colour 3, mode 3, armed, snow mode and 12.0 V.
\* ----------------------------------------------------------------------
C1_Original ==
    (Decodable /\ Payload = ExamplePayload) =>
        /\ pc = "done"
        /\ result[1].color = 3
        /\ result[1].mode = 3
        /\ result[1].armed
        /\ result[1].snowmode
        /\ result[1].vbat.num = 12 * result[1].vbat.den

\* C1 as amended: that payload assembles colour 9 and fails with a range
\* error; the payload [0xC0,0x00,0xC0,0x80,0x40,0xC8] is the one decoding to
\* colour 3, mode 3, armed, snow mode and 12.0 V.
C1_Amended ==
    /\ (Decodable /\ Payload = ExamplePayload) =>
          /\ pc = "error"
          /\ err = "ValueError"
          /\ result = None
          /\ unpacked = ExamplePayload
    /\ (Decodable /\ Payload = UserPayload) =>
          /\ pc = "done"
          /\ result[1].color = 3
          /\ result[1].mode = 3
          /\ result[1].armed
          /\ result[1].snowmode
          /\ result[1].vbat.num = 12 * result[1].vbat.den

C1_Witness ==
    /\ Decodable
    /\ Payload = ExamplePayload
    /\ err = "ValueError"

\* ----------------------------------------------------------------------
\* C2: when a record's declared length runs past the end of the buffer the
\* parser fails: every yielded field has its full declared length, and the
\* parse of such a buffer never completes, so no record is returned.
\* ----------------------------------------------------------------------
C2_Claim ==
    HasData =>
        /\ IsPrefix(Encode(yielded), data)
        /\ Overruns(data) => (~ParseCompleted /\ result = None)

\* ----------------------------------------------------------------------
\* C3: a buffer with no field of type 9 makes the decoder fail; no record
\* with an empty or default name is returned.
\* ----------------------------------------------------------------------
C3_Claim ==
    (Terminated /\ ParseCompleted /\ ~HasName) => (pc = "error" /\ result = None)

\* ----------------------------------------------------------------------
\* C4: when the last type-255 field is absent or not exactly 6 bytes long
\* the decoder fails and returns no record; bits are only ever extracted
\* from a 6-byte payload.
\* ----------------------------------------------------------------------
C4_SizeChecked ==
    /\ (Terminated /\ ParseCompleted /\ (~HasPayload \/ Len(Payload) # 6)) =>
          (pc = "error" /\ result = None /\ unpacked = <<>>)
    /\ pc = "done" => (HasPayload /\ Len(Payload) = 6)
    /\ unpacked # <<>> => (HasPayload /\ Len(Payload) = 6 /\ unpacked = Payload)

C4_Witness ==
    /\ err = "struct.error"
    /\ HasPayload
    /\ Len(Payload) > 6

\* ----------------------------------------------------------------------
\* C5: a 6-byte payload whose colour integer is not in 1..6 fails with a
\* range error and returns no record; a returned colour is always in 1..6
\* and is the assembled integer itself.
\* ----------------------------------------------------------------------
C5_ColorRange ==
    /\ (Decodable /\ Len(Payload) = 6 /\ ColorOf(Payload) \notin 1..6) =>
          (pc = "error" /\ err = "ValueError" /\ result = None)
    /\ pc = "done" =>
          (result[1].color \in 1..6 /\ result[1].color = ColorOf(Payload))

C5_Witness ==
    /\ Decodable
    /\ Len(Payload) = 6
    /\ ColorOf(Payload) = 0
    /\ err = "ValueError"

\* ----------------------------------------------------------------------
\* C6: on a buffer that is a concatenation of well-formed records the
\* parser yields exactly those records, in order, and raises nothing.
\* ----------------------------------------------------------------------
C6_RoundTrip ==
    (HasData /\ WellFormed(data)) =>
        /\ err # "IndexError"
        /\ pc = "iter" => (offset <= Len(data) /\ Encode(yielded) = SubSeq(data, 1, offset))
        /\ ParseCompleted => Encode(yielded) = data

C6_Witness ==
    /\ HasData
    /\ WellFormed(data)
    /\ ParseCompleted
    /\ Len(yielded) = 3
    /\ \E i \in 1..3 : yielded[i][2] = <<>>

\* ----------------------------------------------------------------------
\* C7: a returned record carries the bits of the payload b0..b5: colour
\* from the top bits of b0 and b1, mode from the top bits of b2 and bit 6
\* of b3, armed = bit 7 of b3, snow mode = bit 6 of b4, and a voltage with
\* voltage * 1000 = b5 * 60, between 0 and 15.3.
\* ----------------------------------------------------------------------
C7_BitLayout ==
    pc = "done" =>
        LET b == Payload
            r == result[1]
        IN /\ Len(b) = 6
           /\ r.color = ColorOf(b)
           /\ r.mode = ModeOf(b)
           /\ r.armed = (b[4] >= 128)
           /\ r.snowmode = ((b[5] \div 64) % 2 = 1)
           /\ r.vbat.num * 1000 = b[6] * 60 * r.vbat.den
           /\ r.vbat.den > 0
           /\ r.vbat.num >= 0
           /\ r.vbat.num * 10 <= 153 * r.vbat.den

C7_Witness ==
    /\ pc = "done"
    /\ Payload[1] = 127
    /\ Payload[4] = 63
    /\ Payload[5] = 191
    /\ Payload[6] = 255

\* ----------------------------------------------------------------------
\* C8: the parser stops at the first zero length byte: the fields yielded
\* are exactly the records before it, whatever follows, and nothing is
\* raised; an empty buffer and a single zero byte give no field at all.
\* ----------------------------------------------------------------------
C8_ZeroStops ==
    HasData =>
        /\ \A k \in 0..(Len(data) - 1) :
              (At(data, k) = 0 /\ WellFormed(SubSeq(data, 1, k))) =>
                  /\ err # "IndexError"
                  /\ offset <= k
                  /\ ParseCompleted =>
                        (offset = k /\ Encode(yielded) = SubSeq(data, 1, k))
        /\ (data = <<>> \/ data = <<0>>) =>
              (err # "IndexError" /\ yielded = <<>> /\ offset = 0)

C8_Witness ==
    /\ HasData
    /\ ParseCompleted
    /\ yielded # <<>>
    /\ offset < Len(data) - 1
    /\ At(data, offset) = 0
    /\ At(data, offset + 1) # 0

\* ----------------------------------------------------------------------
\* C9: when a type code occurs in several records the mapping holds the
\* value of the last one; the name and the payload decoded are those of
\* the last type-9 and the last type-255 record.
\* ----------------------------------------------------------------------
C9_LastWins ==
    /\ DOMAIN fields = { yielded[i][1] : i \in 1..Len(yielded) }
    /\ \A t \in DOMAIN fields : fields[t] = LastValue(yielded, t)
    /\ pc = "done" =>
          /\ unpacked = Payload
          /\ result[1].color = ColorOf(Payload)
          /\ result[1].mode = ModeOf(Payload)
          /\ HasName => result[1].name = Utf8Decode(NameBytes).text

C9_Witness ==
    /\ pc = "done"
    /\ \E i \in 1..Len(yielded) :
          /\ yielded[i][1] = MANUFACTURER_TYPE
          /\ i < LastIndex(yielded, MANUFACTURER_TYPE)
          /\ Len(yielded[i][2]) = 6
          /\ ColorOf(yielded[i][2]) # ColorOf(Payload)

\* ----------------------------------------------------------------------
\* C10: the mode integer of any 6-byte payload lies in 0..7, so the mode
\* lookup never raises (a range error comes from the colour only) and no
\* returned record has mode 8.
\* ----------------------------------------------------------------------
C10_ModeRange ==
    /\ unpacked # <<>> => (ModeBits(unpacked) \in 0..7 /\ IsQTMode(ModeBits(unpacked)))
    /\ err = "ValueError" => ColorOf(unpacked) \notin 1..6
    /\ pc = "done" => (result[1].mode \in 0..7 /\ result[1].mode # 8)

C10_Witness ==
    /\ pc = "done"
    /\ result[1].mode = 7
    /\ unpacked[4] = 255
====
